---- MODULE Spec2Model ----
(***************************************************************************)
(* Packed (VOP3P) vector ALU instructions of the Vega ISA model:           *)
(* src/arch/amdgpu/vega/insts/vop3p.cc.                                    *)
(*                                                                         *)
(* Three groups of instructions are modelled, each at the level at which   *)
(* the source defines it:                                                  *)
(*   - packed 16-bit integer instructions: the per-element opImpl lambda;  *)
(*   - integer dot products: the per-lane opImpl lambda on 32-bit values;  *)
(*   - V_ACCVGPR_READ / V_ACCVGPR_WRITE: the whole execute(), a lane loop  *)
(*     under the wavefront's execution mask.                               *)
(*                                                                         *)
(* A 32-bit value (uint32_t, or int32_t by its bit pattern) is a record    *)
(* [hi, lo] of its two 16-bit halves, value = hi * 2^16 + lo, because the  *)
(* 32-bit range does not fit the model checker's integers.  Values known   *)
(* to stay small (16-bit elements, their signed products, the running sum  *)
(* of clamped products) are plain integers.                                *)
(***************************************************************************)
EXTENDS Integers, Sequences, FiniteSets

VARIABLES
    inst,      \* mnemonic of the instruction executed last, "none" at start
    clamp,     \* the instruction's clamp (saturate) modifier
    S0, S1, S2,\* operands handed to opImpl (elements or 32-bit lane values)
    D,         \* value returned by opImpl
    pc,        \* position inside V_ACCVGPR_*::execute: "issue" or "loop"
    execMask,  \* wf->execMask(lane)
    src,       \* ConstVecOperandU32 src, after readSrc()
    vdst,      \* VecOperandU32 vdst: the operand's lane buffer
    vgpr       \* destination vector register in the register file

vars == <<inst, clamp, S0, S1, S2, D, pc, execMask, src, vdst, vgpr>>

opVars == <<inst, clamp, S0, S1, S2, D>>
accVars == <<pc, execMask, src, vdst, vgpr>>

(***************************************************************************)
(* Bounds of the model.                                                    *)
(***************************************************************************)
\* number of 16-bit patterns (a prefix of HalfSeq) the lane operands of the
\* dot products are built from
NumHalves == 7
\* number of accumulator values (a prefix of AccSeq) for the dot products
NumAccs == 2
\* distance from each boundary of the 16-bit range covered by the packed
\* element operands
Spread == 2
\* lanes per vector register in the model (NumVecElemPerVecReg is 64)
NumLanes == 2
\* lane values of the ACCVGPR moves range over 0 .. MaxLaneVal
MaxLaneVal == 1

(***************************************************************************)
(* Powers of two, bit helpers (base/bitfield.hh) on small integers.        *)
(***************************************************************************)
Pow2(n) == 2 ^ n

\* mask(N): the N low bits set
mask(N) == Pow2(N) - 1

\* x & mask(N) for an integer x in two's complement
AndMask(x, N) == x % (mask(N) + 1)

\* sext<N>(val): val is an N-bit field; the result is its signed value
sext(N, val) == IF val >= Pow2(N - 1) THEN val - Pow2(N) ELSE val

(***************************************************************************)
(* 32-bit values as two 16-bit halves.                                     *)
(***************************************************************************)
U32(h, l) == [hi |-> h, lo |-> l]

Zero32 == U32(0, 0)

\* conversion of an int (|x| < 2^31) to uint32_t: its 32-bit two's complement
\* bit pattern
ToU32(x) == U32((x \div 65536) % 65536, x % 65536)

\* the bit pattern read as int32_t is negative
IsNeg32(v) == v.hi >= 32768

\* uint32_t addition, and int32_t addition by its bit pattern (the carry out
\* of bit 31 is dropped)
Add32(a, b) ==
    LET l == a.lo + b.lo
        h == a.hi + b.hi + (l \div 65536)
    IN  U32(h % 65536, l % 65536)

\* uint32_t product of two values below 2^16 (no wrap: the product is below
\* 2^32), computed on 8-bit digits
Mul16(a, b) ==
    LET a0 == a % 256
        a1 == a \div 256
        b0 == b % 256
        b1 == b \div 256
        mid == a1 * b0 + a0 * b1
        low == a0 * b0 + (mid % 256) * 256
    IN  U32(a1 * b1 + (mid \div 256) + (low \div 65536), low % 65536)

\* bits(val, i*N + N - 1, i*N): element i of width N of a 32-bit value
bits(v, i, N) ==
    LET perHalf == 16 \div N
        h == IF i < perHalf THEN v.lo ELSE v.hi
    IN  (h \div Pow2(N * (i % perHalf))) % Pow2(N)

(***************************************************************************)
(* Helper functions, vop3p.cc:45-99.                                       *)
(***************************************************************************)
\* dotClampI<N> that truncates when it does not clamp
dotClampI_trunc(N, value, c) ==
    IF ~c THEN sext(N, AndMask(value, N))
    ELSE LET min == -Pow2(N - 1)
             max == Pow2(N - 1) - 1
         IN  IF value < min THEN min ELSE IF max < value THEN max ELSE value

\* dotClampI<N> that clamps whatever the flag says
dotClampI_always(N, value, c) ==
    LET min == -Pow2(N - 1)
        max == Pow2(N - 1) - 1
    IN  IF value < min THEN min ELSE IF max < value THEN max ELSE value

\* dotClampI<N> whose upper bound is one too large
dotClampI_offbyone(N, value, c) ==
    IF ~c THEN value
    ELSE LET min == -Pow2(N - 1)
             max == Pow2(N - 1)
         IN  IF value < min THEN min ELSE IF max < value THEN max ELSE value

\* dotClampI<N>(int32_t value, bool clamp); value is a product of two
\* sign-extended elements and is kept as an integer
dotClampI(N, value, c) ==
    IF ~c THEN value
    ELSE LET min == -Pow2(N - 1)
             max == Pow2(N - 1) - 1
         IN  IF value < min THEN min ELSE IF max < value THEN max ELSE value

\* dotClampU<N> that keeps only the low N bits when it does not clamp
dotClampU_trunc(N, value, c) ==
    IF ~c THEN U32(0, value.lo % Pow2(N))
    ELSE IF IsNeg32(value) THEN Zero32
    ELSE IF value.hi > 0 \/ value.lo > Pow2(N) - 1 THEN U32(0, Pow2(N) - 1)
    ELSE value

\* dotClampU<N>(uint32_t value, bool clamp).  std::clamp<int32_t> converts
\* value, min and max to int32_t: a value with bit 31 set compares below
\* min = 0.
dotClampU(N, value, c) ==
    IF ~c THEN value
    ELSE IF IsNeg32(value) THEN Zero32
    ELSE IF value.hi > 0 \/ value.lo > Pow2(N) - 1 THEN U32(0, Pow2(N) - 1)
    ELSE value

\* static_cast<int16_t>(value): the low 16 bits read in two's complement;
\* also an element handed to a lambda whose parameter is int16_t
ToI16(value) ==
    LET low == value % 65536
    IN  IF low >= 32768 THEN low - 65536 ELSE low

\* clampI16 that wraps also when asked to clamp
clampI16_wrap(value, c) == ToI16(value)

\* clampI16(int32_t value, bool clamp) -> int16_t
clampI16(value, c) ==
    IF ~c THEN ToI16(value)
    ELSE IF value < -32768 THEN -32768
    ELSE IF 32767 < value THEN 32767
    ELSE value

\* clampU16(uint32_t value, bool clamp) -> uint16_t; value is the int result
\* of the caller's arithmetic converted to uint32_t, here a [hi, lo] record
clampU16(value, c) ==
    IF ~c THEN value.lo
    ELSE IF value.hi > 0 THEN 65535
    ELSE value.lo

(***************************************************************************)
(* Packed 16-bit instructions: the opImpl lambdas, vop3p.cc:143-266.       *)
(* An operand is the raw 16-bit element; a lambda with int16_t parameters  *)
(* reads it sign-extended.  C++ promotes the operands to int before the    *)
(* arithmetic.                                                             *)
(***************************************************************************)
\* V_PK_MUL_LO_U16 that honours the clamp modifier
PK_MUL_LO_U16_clamps(s0, s1, c) == clampU16(Mul16(s0, s1), c)

\* V_PK_MUL_LO_U16: D = S0 * S1 is computed in int; a product above INT_MAX
\* overflows int, and the low 32 bits of the product are what is stored in
\* the uint32_t D, of which Dh = D & 0xFFFF is returned.
PK_MUL_LO_U16_opImpl(s0, s1, c) == Mul16(s0, s1).lo

PK_ADD_I16_opImpl(s0, s1, c) == clampI16(ToI16(s0) + ToI16(s1), c)

PK_SUB_I16_opImpl(s0, s1, c) == clampI16(ToI16(s0) - ToI16(s1), c)

PK_ADD_U16_opImpl(s0, s1, c) == clampU16(ToU32(s0 + s1), c)

PK_SUB_U16_opImpl(s0, s1, c) == clampU16(ToU32(s0 - s1), c)

(***************************************************************************)
(* Dot products: the opImpl lambdas, vop3p.cc:383-594.  The three signed   *)
(* lambdas differ only in INBITS, and so do the three unsigned ones.       *)
(***************************************************************************)
\* C[i] of a signed dot product: the product of the sign-extended elements,
\* then sext<INBITS>(dotClampI<INBITS>(C[i], clamp) & mask(INBITS))
DotI_C(INBITS, S0r, S1r, c, i) ==
    LET prod == sext(INBITS, bits(S0r, i, INBITS))
                    * sext(INBITS, bits(S1r, i, INBITS))
    IN  sext(INBITS, AndMask(dotClampI(INBITS, prod, c), INBITS))

\* Csum after the elements 0 .. n-1 were added, in ascending order
RECURSIVE DotI_Csum(_, _, _, _, _)
DotI_Csum(INBITS, S0r, S1r, c, n) ==
    IF n = 0 THEN 0
    ELSE DotI_Csum(INBITS, S0r, S1r, c, n - 1)
             + DotI_C(INBITS, S0r, S1r, c, n - 1)

\* the signed lambda: Csum += S2 is an int32_t addition whose result is
\* reinterpreted as uint32_t.  Where the sum leaves the int32_t range the
\* addition overflows; the 32-bit add the build emits leaves the sum modulo
\* 2^32 in rv.
DotI_opImpl(INBITS, S0r, S1r, S2r, c) ==
    Add32(ToU32(DotI_Csum(INBITS, S0r, S1r, c, 32 \div INBITS)), S2r)

\* C[i] of an unsigned dot product
DotU_C(INBITS, S0r, S1r, c, i) ==
    dotClampU(INBITS, Mul16(bits(S0r, i, INBITS), bits(S1r, i, INBITS)), c)

RECURSIVE DotU_Csum(_, _, _, _, _)
DotU_Csum(INBITS, S0r, S1r, c, n) ==
    IF n = 0 THEN Zero32
    ELSE Add32(DotU_Csum(INBITS, S0r, S1r, c, n - 1),
               DotU_C(INBITS, S0r, S1r, c, n - 1))

\* the unsigned lambda
DotU_opImpl(INBITS, S0r, S1r, S2r, c) ==
    Add32(DotU_Csum(INBITS, S0r, S1r, c, 32 \div INBITS), S2r)

(***************************************************************************)
(* V_ACCVGPR_READ / V_ACCVGPR_WRITE, vop3p.cc:596-632.                     *)
(***************************************************************************)
Lanes == 0 .. NumLanes - 1

LaneVals == 0 .. MaxLaneVal

VecRegs == [Lanes -> LaneVals]

\* the lane loop with the test of the execution mask inverted
LaneLoop_inverted(buf, s, m) ==
    [lane \in Lanes |-> IF m[lane] THEN buf[lane] ELSE s[lane]]

\* the lane loop without the test of the execution mask
LaneLoop_unmasked(buf, s, m) == [lane \in Lanes |-> s[lane]]

\* for (lane ...) if (wf->execMask(lane)) vdst[lane] = src[lane];
LaneLoop(buf, s, m) ==
    [lane \in Lanes |-> IF m[lane] THEN s[lane] ELSE buf[lane]]

\* VecOperandU32::write(): the operand's lanes are written back to the
\* register file for the active lanes
write(reg, buf, m) ==
    [lane \in Lanes |-> IF m[lane] THEN buf[lane] ELSE reg[lane]]

(***************************************************************************)
(* Operand values the instructions are executed on.                        *)
(***************************************************************************)
\* 16-bit patterns: 0xFFFF, 0x0100, 0x0101, 0xFF01, 0x807F, 0x7F80, 0x0001,
\* 0x8000, 0x0000, 0x7FFF
HalfSeq == <<65535, 256, 257, 65281, 32895, 32640, 1, 32768, 0, 32767>>

Halves == {HalfSeq[k] : k \in 1 .. NumHalves}

\* 32-bit lane values of the dot products' S0 and S1
LaneWords == {U32(h, l) : h \in Halves, l \in Halves}

\* accumulators: 0, 0x7FFFFFFF, 0xFFFFFFFF, 0x80000000, 1, 0x00010000
AccSeq == <<U32(0, 0), U32(32767, 65535), U32(65535, 65535), U32(32768, 0),
            U32(0, 1), U32(1, 0)>>

Accs == {AccSeq[k] : k \in 1 .. NumAccs}

\* raw 16-bit elements next to 0, to the int16_t bounds and to 0xFFFF
ElemVals ==
    (0 .. Spread) \cup ((32767 - Spread) .. (32768 + Spread))
        \cup ((65535 - Spread) .. 65535)

\* widths the dot products instantiate dotClampI and dotClampU with
Widths == {4, 8, 16}

INT32_MAX == 2147483647

INT32_MIN == -2147483647 - 1

\* int32_t values next to 0, to the bounds of every width and of int32_t
ClampVals ==
    ((-Spread) .. Spread)
        \cup UNION {((-Pow2(N - 1)) - Spread) .. ((-Pow2(N - 1)) + Spread)
                        : N \in Widths}
        \cup UNION {((Pow2(N - 1) - 1) - Spread) .. ((Pow2(N - 1) - 1) + Spread)
                        : N \in Widths}
        \cup {INT32_MIN + k : k \in 0 .. Spread}
        \cup {INT32_MAX - k : k \in 0 .. Spread}

(***************************************************************************)
(* Packed 16-bit instructions executed on one element pair.                *)
(***************************************************************************)
AccIdle ==
    /\ pc = "issue"
    /\ execMask = [lane \in Lanes |-> TRUE]
    /\ src = [lane \in Lanes |-> 0]
    /\ vdst = [lane \in Lanes |-> 0]
    /\ vgpr = [lane \in Lanes |-> 0]

InitPk ==
    /\ inst = "none"
    /\ clamp \in BOOLEAN
    /\ S0 \in ElemVals
    /\ S1 \in ElemVals
    /\ S2 = 0
    /\ D = 0
    /\ AccIdle

V_PK_MUL_LO_U16 ==
    /\ inst' = "V_PK_MUL_LO_U16"
    /\ D' = PK_MUL_LO_U16_opImpl(S0, S1, clamp)
    /\ UNCHANGED <<clamp, S0, S1, S2>>
    /\ UNCHANGED accVars

V_PK_ADD_I16 ==
    /\ inst' = "V_PK_ADD_I16"
    /\ D' = PK_ADD_I16_opImpl(S0, S1, clamp)
    /\ UNCHANGED <<clamp, S0, S1, S2>>
    /\ UNCHANGED accVars

V_PK_SUB_I16 ==
    /\ inst' = "V_PK_SUB_I16"
    /\ D' = PK_SUB_I16_opImpl(S0, S1, clamp)
    /\ UNCHANGED <<clamp, S0, S1, S2>>
    /\ UNCHANGED accVars

V_PK_ADD_U16 ==
    /\ inst' = "V_PK_ADD_U16"
    /\ D' = PK_ADD_U16_opImpl(S0, S1, clamp)
    /\ UNCHANGED <<clamp, S0, S1, S2>>
    /\ UNCHANGED accVars

V_PK_SUB_U16 ==
    /\ inst' = "V_PK_SUB_U16"
    /\ D' = PK_SUB_U16_opImpl(S0, S1, clamp)
    /\ UNCHANGED <<clamp, S0, S1, S2>>
    /\ UNCHANGED accVars

NextPk ==
    \/ V_PK_MUL_LO_U16
    \/ V_PK_ADD_I16
    \/ V_PK_SUB_I16
    \/ V_PK_ADD_U16
    \/ V_PK_SUB_U16

SpecPk == InitPk /\ [][NextPk]_vars

(***************************************************************************)
(* Dot products executed on one lane.                                      *)
(***************************************************************************)
InitDot ==
    /\ inst = "none"
    /\ clamp \in BOOLEAN
    /\ S0 \in LaneWords
    /\ S1 \in LaneWords
    /\ S2 \in Accs
    /\ D = Zero32
    /\ AccIdle

V_DOT2_I32_I16 ==
    /\ inst' = "V_DOT2_I32_I16"
    /\ D' = DotI_opImpl(16, S0, S1, S2, clamp)
    /\ UNCHANGED <<clamp, S0, S1, S2>>
    /\ UNCHANGED accVars

V_DOT2_U32_U16 ==
    /\ inst' = "V_DOT2_U32_U16"
    /\ D' = DotU_opImpl(16, S0, S1, S2, clamp)
    /\ UNCHANGED <<clamp, S0, S1, S2>>
    /\ UNCHANGED accVars

V_DOT4_I32_I8 ==
    /\ inst' = "V_DOT4_I32_I8"
    /\ D' = DotI_opImpl(8, S0, S1, S2, clamp)
    /\ UNCHANGED <<clamp, S0, S1, S2>>
    /\ UNCHANGED accVars

V_DOT4_U32_U8 ==
    /\ inst' = "V_DOT4_U32_U8"
    /\ D' = DotU_opImpl(8, S0, S1, S2, clamp)
    /\ UNCHANGED <<clamp, S0, S1, S2>>
    /\ UNCHANGED accVars

V_DOT8_I32_I4 ==
    /\ inst' = "V_DOT8_I32_I4"
    /\ D' = DotI_opImpl(4, S0, S1, S2, clamp)
    /\ UNCHANGED <<clamp, S0, S1, S2>>
    /\ UNCHANGED accVars

V_DOT8_U32_U4 ==
    /\ inst' = "V_DOT8_U32_U4"
    /\ D' = DotU_opImpl(4, S0, S1, S2, clamp)
    /\ UNCHANGED <<clamp, S0, S1, S2>>
    /\ UNCHANGED accVars

NextDot ==
    \/ V_DOT2_I32_I16
    \/ V_DOT2_U32_U16
    \/ V_DOT4_I32_I8
    \/ V_DOT4_U32_U8
    \/ V_DOT8_I32_I4
    \/ V_DOT8_U32_U4

SpecDot == InitDot /\ [][NextDot]_vars

(***************************************************************************)
(* dotClampI<N> called on its own: S0 is the value, S1 the width N.        *)
(***************************************************************************)
InitClamp ==
    /\ inst = "none"
    /\ clamp \in BOOLEAN
    /\ S0 \in ClampVals
    /\ S1 \in Widths
    /\ S2 = 0
    /\ D = 0
    /\ AccIdle

Call_dotClampI ==
    /\ inst' = "dotClampI"
    /\ D' = dotClampI(S1, S0, clamp)
    /\ UNCHANGED <<clamp, S0, S1, S2>>
    /\ UNCHANGED accVars

NextClamp == Call_dotClampI

SpecClamp == InitClamp /\ [][NextClamp]_vars

(***************************************************************************)
(* V_ACCVGPR_READ and V_ACCVGPR_WRITE on a wavefront.  execute() is two    *)
(* steps: the operands are set up and the source is read (issue), then the *)
(* lane loop runs and the destination operand is written back (loop).      *)
(***************************************************************************)
InitAcc ==
    /\ inst = "none"
    /\ clamp = FALSE
    /\ S0 = 0
    /\ S1 = 0
    /\ S2 = 0
    /\ D = 0
    /\ pc = "issue"
    /\ execMask \in [Lanes -> BOOLEAN]
    /\ src \in VecRegs
    /\ vdst = [lane \in Lanes |-> 0]
    /\ vgpr \in VecRegs

\* wavefront(), the operands' constructors and src.readSrc(): the execution
\* mask and the source register are what the wavefront and the register file
\* hold; the lanes of the fresh operand vdst hold no value the instruction
\* has given them (here one arbitrary fill value)
AccIssue(name) ==
    /\ pc = "issue"
    /\ inst' = name
    /\ \E fill \in LaneVals : vdst' = [lane \in Lanes |-> fill]
    /\ pc' = "loop"
    /\ UNCHANGED <<clamp, S0, S1, S2, D, execMask, src, vgpr>>

\* the lane loop and vdst.write()
AccLoop(name) ==
    /\ pc = "loop"
    /\ inst = name
    /\ vdst' = LaneLoop(vdst, src, execMask)
    /\ vgpr' = write(vgpr, vdst', execMask)
    /\ pc' = "issue"
    /\ UNCHANGED <<inst, clamp, S0, S1, S2, D, execMask, src>>

V_ACCVGPR_READ_issue == AccIssue("V_ACCVGPR_READ")

V_ACCVGPR_READ_loop == AccLoop("V_ACCVGPR_READ")

V_ACCVGPR_WRITE_issue == AccIssue("V_ACCVGPR_WRITE")

V_ACCVGPR_WRITE_loop == AccLoop("V_ACCVGPR_WRITE")

NextAcc ==
    \/ V_ACCVGPR_READ_issue
    \/ V_ACCVGPR_READ_loop
    \/ V_ACCVGPR_WRITE_issue
    \/ V_ACCVGPR_WRITE_loop

SpecAcc == InitAcc /\ [][NextAcc]_vars

(***************************************************************************)
(* Properties.                                                             *)
(***************************************************************************)
SignedDots == {"V_DOT2_I32_I16", "V_DOT4_I32_I8", "V_DOT8_I32_I4"}

UnsignedDots == {"V_DOT2_U32_U16", "V_DOT4_U32_U8", "V_DOT8_U32_U4"}

AccMoves == {"V_ACCVGPR_READ", "V_ACCVGPR_WRITE"}

\* element width of a dot product
WidthOf(name) ==
    IF name \in {"V_DOT2_I32_I16", "V_DOT2_U32_U16"} THEN 16
    ELSE IF name \in {"V_DOT4_I32_I8", "V_DOT4_U32_U8"} THEN 8
    ELSE 4

\* element i of width N of a lane value, as a signed number
SElem(v, i, N) == sext(N, bits(v, i, N))

Clip(x, lo, hi) == IF x < lo THEN lo ELSE IF x > hi THEN hi ELSE x

\* sum over the elements i < n of f[i]
RECURSIVE SumTo(_, _)
SumTo(f, n) == IF n = 0 THEN 0 ELSE SumTo(f, n - 1) + f[n - 1]

\* sum modulo 2^32 over the elements i < n of the 32-bit values f[i]
RECURSIVE SumTo32(_, _)
SumTo32(f, n) == IF n = 0 THEN Zero32 ELSE Add32(SumTo32(f, n - 1), f[n - 1])

\* min(p, 0xFFFF...) of a 32-bit unsigned value p for width N
MinU(p, N) == IF p.hi > 0 \/ p.lo > Pow2(N) - 1 THEN U32(0, Pow2(N) - 1) ELSE p

\* C1: V_DOT2_U32_U16 with clamp returns min(lo16(S0)*lo16(S1), 0xFFFF)
\* + min(hi16(S0)*hi16(S1), 0xFFFF) + S2 modulo 2^32, the products taken as
\* unsigned 32-bit values.
C1_Dot2U16Saturates ==
    (inst = "V_DOT2_U32_U16" /\ clamp) =>
        D = Add32(Add32(MinU(Mul16(S0.lo, S1.lo), 16),
                        MinU(Mul16(S0.hi, S1.hi), 16)), S2)

\* C2: V_PK_ADD_I16 returns S0 + S1 clamped into [-32768, 32767] with clamp,
\* and S0 + S1 wrapped to 16-bit two's complement without.
C2_PkAddI16 ==
    inst = "V_PK_ADD_I16" =>
        LET signed(e) == IF e < 32768 THEN e ELSE e - 65536
            sum == signed(S0) + signed(S1)
        IN  IF clamp THEN D = Clip(sum, -32768, 32767)
            ELSE D \in -32768 .. 32767 /\ (D - sum) % 65536 = 0

C2_Witness ==
    /\ inst = "V_PK_ADD_I16"
    /\ clamp
    /\ S0 = 32767
    /\ S1 = 1
    /\ D = 32767

\* C3: V_ACCVGPR_READ and V_ACCVGPR_WRITE leave the destination lane of every
\* lane whose execution-mask bit is false as it was: the lane loop assigns
\* nothing to it and the write-back does not change the register's lane.
C3_MaskingLaw ==
    [][(pc = "loop" /\ pc' = "issue" /\ inst \in AccMoves) =>
          \A lane \in Lanes :
              ~execMask[lane] =>
                  vdst'[lane] = vdst[lane] /\ vgpr'[lane] = vgpr[lane]]_vars

C3_Witness ==
    /\ pc = "issue"
    /\ inst \in AccMoves
    /\ \E lane \in Lanes :
           /\ ~execMask[lane]
           /\ src[lane] # vdst[lane]
           /\ src[lane] # vgpr[lane]

\* C4: the signed dot products with clamp return the sum over the elements of
\* the product of the sign-extended elements clamped to the element's range,
\* plus S2, modulo 2^32; the running sum is not clamped and S2 is added once.
C4_SignedDotSaturates ==
    (inst \in SignedDots /\ clamp) =>
        LET N == WidthOf(inst)
            c == [i \in 0 .. (32 \div N) - 1 |->
                      Clip(SElem(S0, i, N) * SElem(S1, i, N),
                           -Pow2(N - 1), Pow2(N - 1) - 1)]
        IN  D = Add32(ToU32(SumTo(c, 32 \div N)), S2)

\* bytes {1, -1, 127, -128} times {1, 1, 1, 1} give -1
C4_Witness ==
    /\ inst = "V_DOT4_I32_I8"
    /\ clamp
    /\ S0 = U32(32895, 65281)
    /\ S1 = U32(257, 257)
    /\ S2 = Zero32
    /\ D = U32(65535, 65535)

C6_PkSubU16Saturates ==
    (inst = "V_PK_SUB_U16" /\ clamp) =>
        D = IF S0 >= S1 THEN S0 - S1 ELSE 0

\* C7: V_PK_MUL_LO_U16 returns the low 16 bits of S0 * S1, whatever the clamp
\* modifier.
C7_PkMulLoU16 ==
    inst = "V_PK_MUL_LO_U16" =>
        D = (S0 * (S1 % 256) + ((S0 * (S1 \div 256)) % 256) * 256) % 65536

C7_Witness ==
    /\ inst = "V_PK_MUL_LO_U16"
    /\ clamp
    /\ S0 = 65535
    /\ S1 = 2
    /\ D = 65534

\* C8: after V_ACCVGPR_READ or V_ACCVGPR_WRITE every lane whose execution-mask
\* bit is true holds the source lane's value in the destination.
C8_ActiveLanesCopied ==
    (pc = "issue" /\ inst \in AccMoves) =>
        \A lane \in Lanes :
            execMask[lane] => vdst[lane] = src[lane] /\ vgpr[lane] = src[lane]

C8_Witness ==
    /\ pc = "issue"
    /\ inst \in AccMoves
    /\ \E lane, other \in Lanes :
           /\ execMask[lane]
           /\ src[lane] = MaxLaneVal
           /\ vgpr[lane] = MaxLaneVal
           /\ ~execMask[other]
           /\ vgpr[other] # src[other]

\* C9: the signed dot products without clamp reduce every product to its low
\* N bits, sign-extended, before it is summed.
C9_SignedDotTruncates ==
    (inst \in SignedDots /\ ~clamp) =>
        LET N == WidthOf(inst)
            c == [i \in 0 .. (32 \div N) - 1 |->
                      sext(N, (SElem(S0, i, N) * SElem(S1, i, N)) % Pow2(N))]
        IN  D = Add32(ToU32(SumTo(c, 32 \div N)), S2)

\* the element pair (256, 256) contributes 0, the pair (1, 1) contributes 1
C9_Witness ==
    /\ inst = "V_DOT2_I32_I16"
    /\ ~clamp
    /\ S0 = U32(1, 256)
    /\ S1 = U32(1, 256)
    /\ S2 = Zero32
    /\ D = U32(0, 1)

\* C10: the unsigned dot products without clamp sum the full 32-bit products
\* and S2 modulo 2^32.
C10_UnsignedDotFullProducts ==
    (inst \in UnsignedDots /\ ~clamp) =>
        LET N == WidthOf(inst)
            c == [i \in 0 .. (32 \div N) - 1 |->
                      Mul16(bits(S0, i, N), bits(S1, i, N))]
        IN  D = Add32(SumTo32(c, 32 \div N), S2)

\* the element pair (256, 256) contributes 65536, the pair (1, 1) contributes 1
C10_Witness ==
    /\ inst = "V_DOT2_U32_U16"
    /\ ~clamp
    /\ S0 = U32(1, 256)
    /\ S1 = U32(1, 256)
    /\ S2 = Zero32
    /\ D = U32(1, 1)

====
